---- MODULE Spec2Model ----
(***************************************************************************)
(* mdtree (src/src/lib.rs): the general tree GenTree<Heading>, the         *)
(* leveled-list-to-tree builder construct, the renderer pretty_print /     *)
(* preorder, the destructor Drop for GenTree, and the entry point          *)
(* navigator, which parses, filters, builds, prints and releases.          *)
(*                                                                         *)
(* A position Pos<T> = Option<*mut Node<T>> is a heap index, None is 0.    *)
(* heap is the sequence of every node allocated with Box::into_raw, in     *)
(* allocation order; a node that is never attached stays in heap.          *)
(***************************************************************************)
EXTENDS Integers, Sequences, FiniteSets, TLC

\* Bounds of the model.
MaxLen == 4      \* longest heading sequence handed to parse / construct
MaxBase == 2     \* largest level argument (-l)
MaxLevel == 4    \* largest heading level in a direct call of construct

\* Heading levels the parse regex ^(#{1,6})\s+(.*) can yield are 1..MaxHeadingLevel.
MaxHeadingLevel == 6

\* Pos<T>::None
None == 0

VARIABLES
    entry,            \* "construct": construct called directly; "navigator": through navigator
    level,            \* the level argument of navigator / construct
    input,            \* headings of the document (navigator) or the data argument (construct)
    data,             \* construct's data: Vec<Heading>
    i,                \* index in data of the next heading of `for e in data`
    heap,             \* all nodes allocated so far
    tree,             \* GenTree { root, size }
    level_cursor,     \* construct's local
    position_cursor,  \* construct's local
    pc,               \* "start", "loop", "panicked", "returned", "printed", "dropped"
    out,              \* lines written to stdout by pretty_print
    freed             \* nodes handed to Box::from_raw by drop, in order

vars == <<entry, level, input, data, i, heap, tree, level_cursor,
          position_cursor, pc, out, freed>>

----------------------------------------------------------------------------
\* Heading and Node

Heading_new(title, lvl) == [level |-> lvl, title |-> title]

Node_build(d) == [parent |-> None, children |-> <<>>, data |-> d]

\* Option<Pos<T>> as returned by GenTree::parent
SomePos(p) == [some |-> TRUE, pos |-> p]
NoPos == [some |-> FALSE, pos |-> None]

\* Box::into_raw(Node::build(Some(d))): the new node's position and the heap with it
Alloc(h, d) == [pos |-> Len(h) + 1, heap |-> Append(h, Node_build(d))]

----------------------------------------------------------------------------
\* GenTree

GenTree_new ==
    LET a == Alloc(<<>>, Heading_new("ROOT", 0))
    IN  [heap |-> a.heap, tree |-> [root |-> a.pos, size |-> 1]]

GenTree_get(h, node) == h[node].data

GenTree_parent(h, node) ==
    IF node # None THEN SomePos(h[node].parent) ELSE NoPos

\* add_child without lines 95-97: the child's parent link is never set
add_child_no_parent_link(h, t, ancestor, node) ==
    LET h1 == IF ancestor # None
              THEN [h EXCEPT ![ancestor].children = Append(@, node)]
              ELSE h
    IN  [heap |-> h1, tree |-> [t EXCEPT !.size = @ + 1]]

add_child(h, t, ancestor, node) ==
    LET h1 == IF ancestor # None
              THEN [h EXCEPT ![ancestor].children = Append(@, node)]
              ELSE h
        h2 == IF ancestor # None /\ node # None
              THEN [h1 EXCEPT ![node].parent = ancestor]
              ELSE h1
    IN  [heap |-> h2, tree |-> [t EXCEPT !.size = @ + 1]]

_is_root(t, node) == node = t.root

\* _depth: Some(d) is d, None (a parent lookup on an absent position) is 0.
\* fuel bounds the walk; a walk from a node of heap takes at most Len(heap) moves.
RECURSIVE DepthWalk(_, _, _, _, _)
DepthWalk(h, t, cursor, d, fuel) ==
    IF _is_root(t, cursor) THEN d
    ELSE IF fuel = 0 THEN 0
    ELSE LET p == GenTree_parent(h, cursor)
         IN  IF ~p.some THEN 0 ELSE DepthWalk(h, t, p.pos, d + 1, fuel - 1)

_depth(h, t, node) == DepthWalk(h, t, node, 1, Len(h) + 1)

----------------------------------------------------------------------------
\* Drop for GenTree: the nodes freed, in the order Box::from_raw is called

RECURSIVE drop_node_recursive(_, _)
RECURSIVE DropChildren(_, _, _)
DropChildren(h, cs, k) ==
    IF k > Len(cs) THEN <<>>
    ELSE (IF cs[k] # None THEN drop_node_recursive(h, cs[k]) ELSE <<>>)
         \o DropChildren(h, cs, k + 1)

drop_node_recursive(h, node_ptr) ==
    DropChildren(h, h[node_ptr].children, 1) \o <<node_ptr>>

GenTree_drop(h, t) ==
    IF t.root # None THEN drop_node_recursive(h, t.root) ELSE <<>>

----------------------------------------------------------------------------
\* construct: one iteration of `for e in data`, by case.
\* A builder state s is [heap, tree, level_cursor, position_cursor, panicked].

\* for _ in 1..diff { placeholder ... }: k iterations left
RECURSIVE Bridge(_, _)
Bridge(s, k) ==
    IF k <= 0 THEN s
    ELSE LET a == Alloc(s.heap, Heading_new("[]", 0))
             c == add_child(a.heap, s.tree, s.position_cursor, a.pos)
         IN  Bridge([s EXCEPT !.heap = c.heap, !.tree = c.tree,
                              !.position_cursor = a.pos,
                              !.level_cursor = @ + 1], k - 1)

\* for _ in 0..diff { position_cursor = parent(position_cursor).expect(..) }
RECURSIVE Ascend(_, _)
Ascend(s, k) ==
    IF k <= 0 THEN s
    ELSE LET p == GenTree_parent(s.heap, s.position_cursor)
         IN  IF ~p.some THEN [s EXCEPT !.panicked = TRUE]
             ELSE Ascend([s EXCEPT !.position_cursor = p.pos,
                                   !.level_cursor = @ - 1], k - 1)

\* the child case without line 245: level_cursor keeps its old value
ChildBranch_stale_level(s, node) ==
    LET c == add_child(s.heap, s.tree, s.position_cursor, node)
    IN  [s EXCEPT !.heap = c.heap, !.tree = c.tree]

\* lines 242-246
ChildBranch(s, node) ==
    LET c == add_child(s.heap, s.tree, s.position_cursor, node)
    IN  [s EXCEPT !.heap = c.heap, !.tree = c.tree,
                  !.level_cursor = GenTree_get(c.heap, node).level]

\* the gap case with `for _ in 0..diff`: one placeholder too many
GapBranch_extra_placeholder(s, node, current_level) ==
    LET diff == current_level - s.level_cursor
        b == Bridge(s, diff)
        c == add_child(b.heap, b.tree, b.position_cursor, node)
    IN  [b EXCEPT !.heap = c.heap, !.tree = c.tree,
                  !.level_cursor = GenTree_get(c.heap, node).level]

\* lines 249-261
GapBranch(s, node, current_level) ==
    LET diff == current_level - s.level_cursor
        b == Bridge(s, diff - 1)
        c == add_child(b.heap, b.tree, b.position_cursor, node)
    IN  [b EXCEPT !.heap = c.heap, !.tree = c.tree,
                  !.level_cursor = GenTree_get(c.heap, node).level]

\* lines 264-266
SiblingBranch(s, node) ==
    LET p == GenTree_parent(s.heap, s.position_cursor)
    IN  IF ~p.some THEN [s EXCEPT !.panicked = TRUE]
        ELSE LET c == add_child(s.heap, s.tree, p.pos, node)
             IN  [s EXCEPT !.heap = c.heap, !.tree = c.tree]

\* the ascend case without line 272: diff parent moves instead of diff + 1
AscendBranch_one_move_short(s, node, current_level) ==
    LET diff == s.level_cursor - current_level
        a == Ascend(s, diff)
    IN  IF a.panicked THEN a
        ELSE LET c == add_child(a.heap, a.tree, a.position_cursor, node)
             IN  [a EXCEPT !.heap = c.heap, !.tree = c.tree,
                           !.level_cursor = GenTree_get(c.heap, node).level]

\* lines 270-280
AscendBranch(s, node, current_level) ==
    LET diff == s.level_cursor - current_level
        p == GenTree_parent(s.heap, s.position_cursor)
    IN  IF ~p.some THEN [s EXCEPT !.panicked = TRUE]
        ELSE LET a == Ascend([s EXCEPT !.position_cursor = p.pos], diff)
             IN  IF a.panicked THEN a
                 ELSE LET c == add_child(a.heap, a.tree, a.position_cursor, node)
                      IN  [a EXCEPT !.heap = c.heap, !.tree = c.tree,
                                    !.level_cursor = GenTree_get(c.heap, node).level]

\* The builder state at the top of an iteration, with the node of the heading
\* allocated (lines 238-239).
IterStart ==
    LET a == Alloc(heap, data[i])
    IN  [node |-> a.pos,
         s |-> [heap |-> a.heap, tree |-> tree, level_cursor |-> level_cursor,
                position_cursor |-> position_cursor, panicked |-> FALSE]]

\* The end of an iteration: line 283, or the unwinding of a panic, which
\* drops construct's local tree.
IterEnd(r, node) ==
    /\ heap' = r.heap
    /\ tree' = r.tree
    /\ level_cursor' = r.level_cursor
    /\ position_cursor' = IF r.panicked THEN r.position_cursor ELSE node
    /\ pc' = IF r.panicked THEN "panicked" ELSE "loop"
    /\ i' = IF r.panicked THEN i ELSE i + 1
    /\ freed' = IF r.panicked THEN GenTree_drop(r.heap, r.tree) ELSE freed
    /\ UNCHANGED <<entry, level, input, data, out>>

----------------------------------------------------------------------------
\* pretty_print and preorder: the lines printed.  A line is
\* [prefix, conn, text]; prefix is the indentation, a sequence of "bar"
\* (vertical guide and padding) and "pad" (padding only).

Line(prefix, conn, text) == [prefix |-> prefix, conn |-> conn, text |-> text]

RECURSIVE preorder(_, _, _)
RECURSIVE PreorderChildren(_, _, _, _)
\* preorder printing a node's line after its subtree instead of before it
PreorderChildren_line_after_subtree(h, cs, k, prefix) ==
    IF k > Len(cs) THEN <<>>
    ELSE LET index == Len(cs) - k
             node == GenTree_get(h, cs[k])
         IN  (IF index = 0
              THEN preorder(h, cs[k], prefix \o <<"pad">>)
                   \o <<Line(prefix, "last", node.title)>>
              ELSE preorder(h, cs[k], prefix \o <<"bar">>)
                   \o <<Line(prefix, "branch", node.title)>>)
             \o PreorderChildren(h, cs, k + 1, prefix)

PreorderChildren(h, cs, k, prefix) ==
    IF k > Len(cs) THEN <<>>
    ELSE LET index == Len(cs) - k
             node == GenTree_get(h, cs[k])
         IN  (IF index = 0
              THEN <<Line(prefix, "last", node.title)>>
                   \o preorder(h, cs[k], prefix \o <<"pad">>)
              ELSE <<Line(prefix, "branch", node.title)>>
                   \o preorder(h, cs[k], prefix \o <<"bar">>))
             \o PreorderChildren(h, cs, k + 1, prefix)

preorder(h, position, prefix) ==
    IF position # None
    THEN PreorderChildren(h, h[position].children, 1, prefix)
    ELSE <<Line(<<>>, "invalid", "Not a valid position")>>

pretty_print(h, name, position) ==
    IF position # None
    THEN IF Len(h[position].children) = 0
         THEN <<Line(<<>>, "name", name), Line(<<>>, "empty", "[]"),
                Line(<<>>, "blank", "")>>
         ELSE <<Line(<<>>, "name", name), Line(<<>>, "guide", "")>>
              \o preorder(h, position, <<>>)
              \o <<Line(<<>>, "blank", "")>>
    ELSE <<>>

----------------------------------------------------------------------------
\* Inputs

\* The k-th heading of a document carries its own text.
TitleOf(k) == "h" \o ToString(k)

HeadingsOf(levels) ==
    [k \in 1..Len(levels) |-> Heading_new(TitleOf(k), levels[k])]

LevelSeqs(S) == UNION {[1..n -> S] : n \in 0..MaxLen}

\* parse: the headings of a document, levels 1..6, in document order
ParseResults == {HeadingsOf(ls) : ls \in LevelSeqs(1..MaxHeadingLevel)}

\* any data argument of construct
DirectData == {HeadingsOf(ls) : ls \in LevelSeqs(0..MaxLevel)}

\* parsed.1.into_iter().filter(|h| h.level > level).collect()
RECURSIVE Filter_keeps_base_level(_, _)
\* the filter written h.level >= level
Filter_keeps_base_level(hs, lvl) ==
    IF hs = <<>> THEN <<>>
    ELSE (IF Head(hs).level >= lvl THEN <<Head(hs)>> ELSE <<>>)
         \o Filter_keeps_base_level(Tail(hs), lvl)

RECURSIVE Filter(_, _)
Filter(hs, lvl) ==
    IF hs = <<>> THEN <<>>
    ELSE (IF Head(hs).level > lvl THEN <<Head(hs)>> ELSE <<>>)
         \o Filter(Tail(hs), lvl)

----------------------------------------------------------------------------
\* The state machine

Init ==
    /\ entry \in {"construct", "navigator"}
    /\ level \in 0..MaxBase
    /\ input \in IF entry = "navigator" THEN ParseResults ELSE DirectData
    /\ data = <<>>
    /\ i = 1
    /\ heap = <<>>
    /\ tree = [root |-> None, size |-> 0]
    /\ level_cursor = 0
    /\ position_cursor = None
    /\ pc = "start"
    /\ out = <<>>
    /\ freed = <<>>

\* lines 231-233 with the given data
ConstructEnter(d) ==
    LET g == GenTree_new
    IN  /\ data' = d
        /\ i' = 1
        /\ heap' = g.heap
        /\ tree' = g.tree
        /\ level_cursor' = level
        /\ position_cursor' = g.tree.root
        /\ pc' = "loop"
        /\ UNCHANGED <<entry, level, input, out, freed>>

\* construct(level, data) called with an arbitrary data
CallConstruct ==
    /\ pc = "start"
    /\ entry = "construct"
    /\ ConstructEnter(input)

\* navigator, lines 346-358: parse, filter, construct
Navigator ==
    /\ pc = "start"
    /\ entry = "navigator"
    /\ ConstructEnter(Filter(input, level))

ChildCase ==
    /\ pc = "loop"
    /\ i <= Len(data)
    /\ data[i].level = level_cursor + 1
    /\ IterEnd(ChildBranch(IterStart.s, IterStart.node), IterStart.node)

GapCase ==
    /\ pc = "loop"
    /\ i <= Len(data)
    /\ data[i].level > level_cursor + 1
    /\ IterEnd(GapBranch(IterStart.s, IterStart.node, data[i].level), IterStart.node)

SiblingCase ==
    /\ pc = "loop"
    /\ i <= Len(data)
    /\ data[i].level = level_cursor
    /\ IterEnd(SiblingBranch(IterStart.s, IterStart.node), IterStart.node)

AscendCase ==
    /\ pc = "loop"
    /\ i <= Len(data)
    /\ data[i].level < level_cursor
    /\ IterEnd(AscendBranch(IterStart.s, IterStart.node, data[i].level), IterStart.node)

\* line 285
Return ==
    /\ pc = "loop"
    /\ i > Len(data)
    /\ pc' = "returned"
    /\ UNCHANGED <<entry, level, input, data, i, heap, tree, level_cursor,
                   position_cursor, out, freed>>

\* line 359
PrettyPrint ==
    /\ pc = "returned"
    /\ out' = pretty_print(heap, "name", tree.root)
    /\ pc' = "printed"
    /\ UNCHANGED <<entry, level, input, data, i, heap, tree, level_cursor,
                   position_cursor, freed>>

\* the tree goes out of scope
Drop ==
    /\ pc = "printed"
    /\ freed' = GenTree_drop(heap, tree)
    /\ pc' = "dropped"
    /\ UNCHANGED <<entry, level, input, data, i, heap, tree, level_cursor,
                   position_cursor, out>>

Next ==
    \/ CallConstruct
    \/ Navigator
    \/ ChildCase
    \/ GapCase
    \/ SiblingCase
    \/ AscendCase
    \/ Return
    \/ PrettyPrint
    \/ Drop

Spec == Init /\ [][Next]_vars

----------------------------------------------------------------------------
\* Vocabulary of the properties

Nodes == 1..Len(heap)

\* the nodes reachable from the root by following children links
RECURSIVE ReachFrom(_, _)
ReachFrom(S, fuel) ==
    LET T == S \cup {c \in Nodes : \E n \in S : \E k \in 1..Len(heap[n].children) :
                                      heap[n].children[k] = c}
    IN  IF T = S \/ fuel = 0 THEN S ELSE ReachFrom(T, fuel - 1)

Reachable == IF tree.root = None THEN {} ELSE ReachFrom({tree.root}, Len(heap))

\* how often node n occurs in the sequence s
Count(s, n) == Cardinality({k \in 1..Len(s) : s[k] = n})

IsPlaceholder(h, n) == n # None /\ h[n].data = Heading_new("[]", 0)

\* every heading handed to construct lies below the base level's cut
AllAbove == \A k \in 1..Len(data) : data[k].level > level

\* no heading is more than one level deeper than the heading before it
NoGaps ==
    \A k \in 1..Len(data) :
        data[k].level <= (IF k = 1 THEN level ELSE data[k - 1].level) + 1

\* the headings processed so far
Processed == 1..(i - 1)

\* the node created for the k-th heading of data
NodeOf(k) == CHOOSE n \in Nodes : heap[n].data = data[k]

\* the ancestor of n reached by k parent moves (None once a move leaves the tree)
RECURSIVE AncestorAt(_, _, _)
AncestorAt(h, n, k) ==
    IF k = 0 \/ n = None THEN n ELSE AncestorAt(h, h[n].parent, k - 1)

\* the nearest ancestor of n that is no placeholder
RECURSIVE NearestReal(_, _)
NearestReal(n, fuel) ==
    LET p == heap[n].parent
    IN  IF p = None \/ fuel = 0 THEN p
        ELSE IF IsPlaceholder(heap, p) THEN NearestReal(p, fuel - 1) ELSE p

\* the headings before k with a strictly smaller level
Smaller(k) == {j \in 1..(k - 1) : data[j].level < data[k].level}

Max(S) == CHOOSE x \in S : \A y \in S : y <= x

Built == pc \in {"loop", "returned", "printed", "dropped"}

----------------------------------------------------------------------------
\* C1: once the tree exists (after GenTree::new and after every add_child of
\* construct), tree.size is the number of nodes reachable from the root by
\* children links, the root included.
C1_SizeIsReachableCount ==
    Built => tree.size = Cardinality(Reachable)

\* the next heading is below level_cursor and its level_cursor - level + 1
\* parent moves from position_cursor, a node of the tree, would pass the root
AscentAboveRoot ==
    /\ pc = "loop"
    /\ i <= Len(data)
    /\ data[i].level < level_cursor
    /\ _depth(heap, tree, position_cursor) > 0
    /\ level_cursor - data[i].level + 1 > _depth(heap, tree, position_cursor) - 1

\* C2: a heading below level_cursor whose level_cursor - level + 1 parent
\* moves from position_cursor would pass the root makes construct fail at
\* that heading: the step ends in a panic, not in a next iteration.
C2_AscentAboveRootFails ==
    [][AscentAboveRoot => pc' = "panicked"]_vars

\* C6: after every step of construct every node created so far but the root
\* has a parent, occurs exactly once in that parent's children and in no
\* other node's children; the root has no parent.
C6_SingleParent ==
    Built =>
        /\ heap[tree.root].parent = None
        /\ \A n \in Nodes \ {tree.root} :
              /\ heap[n].parent # None
              /\ Count(heap[heap[n].parent].children, n) = 1
              /\ \A m \in Nodes \ {heap[n].parent} : Count(heap[m].children, n) = 0

\* C8: when the tree returned by construct is dropped, every node created
\* during construction is freed exactly once.
C8_DropFreesAllOnce ==
    pc = "dropped" => \A n \in Nodes : Count(freed, n) = 1

\* C3: with every level above the base level, the nearest non-placeholder
\* ancestor of each heading's node is the node of the latest earlier heading
\* with a strictly smaller level, the root when there is none; a heading of
\* the previous heading's level is the previous node's next sibling, and a
\* heading of a lower level is not below the previous node.
C3_NearestRealAncestor ==
    (Built /\ AllAbove) =>
        \A k \in Processed :
            LET n == NodeOf(k)
                S == Smaller(k)
            IN  /\ NearestReal(n, Len(heap)) =
                       (IF S = {} THEN tree.root ELSE NodeOf(Max(S)))
                /\ (k > 1 /\ data[k].level = data[k - 1].level) =>
                       LET prev == NodeOf(k - 1)
                           cs == heap[heap[prev].parent].children
                       IN  /\ heap[n].parent = heap[prev].parent
                           /\ \E j \in 1..(Len(cs) - 1) : cs[j] = prev /\ cs[j + 1] = n
                /\ (k > 1 /\ data[k].level < data[k - 1].level) =>
                       \A m \in 1..Len(heap) : AncestorAt(heap, n, m) # NodeOf(k - 1)

C3_Witness ==
    /\ pc = "returned"
    /\ AllAbove
    /\ \E n \in Nodes : IsPlaceholder(heap, n)
    /\ \E k \in 2..Len(data) : data[k].level < data[k - 1].level /\ Smaller(k) # {}

\* C4: a step of construct on a heading with level > level_cursor + 1 creates
\* exactly level - level_cursor - 1 placeholders, a single parent-child chain
\* whose top is the new last child of the previous cursor node and whose
\* deepest node has the heading's node as its only child; a step on a heading
\* with level = level_cursor + 1 creates no placeholder.
C4_GapBridging ==
    [][(pc = "loop" /\ i <= Len(data) /\ data[i].level > level_cursor) =>
        LET k == data[i].level - level_cursor - 1
            New == (Len(heap) + 1)..Len(heap')
            real == CHOOSE n \in New : heap'[n].data = data[i]
            P == New \ {real}
            top == AncestorAt(heap', real, k)
        IN  /\ pc' = "loop"
            /\ \E n \in New : heap'[n].data = data[i]
            /\ Cardinality(P) = k
            /\ \A p \in P : IsPlaceholder(heap', p) /\ Len(heap'[p].children) = 1
            /\ \A m \in 0..(k - 1) : AncestorAt(heap', real, m + 1) \in P
            /\ \A m \in 0..k :
                  LET c == AncestorAt(heap', real, m)
                  IN  heap'[heap'[c].parent].children[Len(heap'[heap'[c].parent].children)] = c
            /\ heap'[real].children = <<>>
            /\ AncestorAt(heap', real, k + 1) = position_cursor
            /\ heap'[position_cursor] =
                   [heap[position_cursor] EXCEPT !.children = Append(@, top)]
            /\ \A n \in Nodes \ {position_cursor} : heap'[n] = heap[n]
      ]_vars

C4_Witness ==
    /\ pc = "loop"
    /\ \E k \in Processed :
          /\ IsPlaceholder(heap, heap[NodeOf(k)].parent)
          /\ IsPlaceholder(heap, AncestorAt(heap, NodeOf(k), 2))
          /\ AncestorAt(heap, NodeOf(k), 3) \notin {None, tree.root}
    /\ \E k \in Processed : heap[NodeOf(k)].parent = tree.root

\* C5: with every level above the base level, the root has depth 1, every
\* child is one deeper than its parent, and every heading's node lies at
\* depth level - base_level + 1.
C5_DepthMatchesLevel ==
    (Built /\ AllAbove) =>
        /\ _depth(heap, tree, tree.root) = 1
        /\ \A n \in Nodes : \A j \in 1..Len(heap[n].children) :
              _depth(heap, tree, heap[n].children[j]) = _depth(heap, tree, n) + 1
        /\ \A n \in Nodes : _depth(heap, tree, n) >= 1
        /\ \A k \in Processed :
              _depth(heap, tree, NodeOf(k)) = data[k].level - level + 1

C5_Witness ==
    /\ pc = "returned"
    /\ AllAbove
    /\ level > 0
    /\ \E n \in Nodes : IsPlaceholder(heap, n)
    /\ \E k \in 2..Len(data) : data[k].level < data[k - 1].level

\* C9: with every level above the base level, at every iteration boundary of
\* construct the cursor is the root with level_cursor = base_level before
\* the first heading, and afterwards the node of the heading just processed,
\* level_cursor is that heading's level, and
\* depth(position_cursor) - 1 = level_cursor - base_level.
C9_CursorTracksLevel ==
    (pc = "loop" /\ AllAbove) =>
        /\ _depth(heap, tree, position_cursor) - 1 = level_cursor - level
        /\ IF i = 1
           THEN position_cursor = tree.root /\ level_cursor = level
           ELSE /\ position_cursor = NodeOf(i - 1)
                /\ level_cursor = data[i - 1].level
                /\ heap[position_cursor].data.level = level_cursor

C9_Witness ==
    /\ pc = "loop"
    /\ AllAbove
    /\ level > 0
    /\ i > 4
    /\ data[1].level = level + 1
    /\ data[2].level > data[1].level + 1
    /\ data[3].level = data[2].level
    /\ data[4].level < data[3].level

\* C10: through navigator construct receives only levels in level+1..6, and
\* then never panics on a parent lookup, never calls add_child with an absent
\* ancestor (no created node is left without a parent), and never runs the
\* sibling or the ascend case with the cursor on the root.
C10_NavigatorNeverMissesParent ==
    entry = "navigator" =>
        /\ pc # "panicked"
        /\ Built =>
              /\ \A k \in 1..Len(data) :
                    data[k].level \in (level + 1)..MaxHeadingLevel
              /\ position_cursor # None
              /\ \A n \in Nodes \ {tree.root} : heap[n].parent # None
              /\ (pc = "loop" /\ i <= Len(data) /\ data[i].level <= level_cursor) =>
                    /\ position_cursor # tree.root
                    /\ AncestorAt(heap, position_cursor,
                                  level_cursor - data[i].level + 1) # None

C10_Witness ==
    /\ entry = "navigator"
    /\ pc = "returned"
    /\ Len(data) < Len(input)
    /\ \E k \in 2..Len(data) : data[k].level < data[k - 1].level

\* C7 as stated: for a heading sequence with no gaps and no level at or below
\* the base level, the output is one line per heading plus the name line,
\* the heading lines in input order.
C7_OneLinePerHeadingPlusName ==
    (pc = "printed" /\ AllAbove /\ NoGaps) =>
        /\ Len(out) = Len(data) + 1
        /\ out[1].conn = "name"
        /\ \A k \in 1..Len(data) : out[k + 1].text = data[k].title

\* C7 amended: the output is the name line, then the guide line (the empty
\* marker "[]" for an empty sequence), then exactly one line per heading, in
\* input order, then one blank line.
C7_HeadingLinesInInputOrder ==
    (pc = "printed" /\ AllAbove /\ NoGaps) =>
        /\ Len(out) = Len(data) + 3
        /\ out[1] = Line(<<>>, "name", "name")
        /\ out[2] = IF data = <<>> THEN Line(<<>>, "empty", "[]")
                                   ELSE Line(<<>>, "guide", "")
        /\ out[Len(out)] = Line(<<>>, "blank", "")
        /\ \A k \in 1..Len(data) :
              /\ out[k + 2].text = data[k].title
              /\ out[k + 2].conn \in {"last", "branch"}

C7_Witness ==
    /\ pc = "printed"
    /\ AllAbove
    /\ NoGaps
    /\ Len(data) >= 3
    /\ \E k \in 2..Len(data) : data[k].level < data[k - 1].level
    /\ \E k \in 1..Len(out) : out[k].conn = "branch"

====
